---- MODULE Spec2Model ----
(***************************************************************************)
(* Model of AuthService (src/app/auth/services/auth.service.ts): the two   *)
(* signals _currentUser and _authStatus, the 'token' slot of localStorage, *)
(* the HTTP requests issued by login and checkAuthStatus that have not     *)
(* completed yet, and the Observables returned by checkAuthStatus that the *)
(* caller still holds.  checkAuthStatus reads the token and logs out when  *)
(* it is called; its GET is issued only when the returned Observable is    *)
(* subscribed, which may be later.  login reads and writes nothing when it *)
(* is called, so a login step is the subscribe that issues its POST.  The  *)
(* constructor calls and subscribes in one statement (line 37).            *)
(*                                                                         *)
(* Optional values (User | null, string | null) are sequences of length    *)
(* at most one: Null is <<>>, Some(x) is <<x>>.  Strings are sequences of  *)
(* character codes, so the empty string is <<>> and Some(<<>>) is a        *)
(* stored empty string, which is different from Null.                      *)
(***************************************************************************)
EXTENDS Integers, Sequences, FiniteSets, TLC

VARIABLES currentUser, authStatus, localStorage, inflight, held, constructed,
          nstale, last

vars == <<currentUser, authStatus, localStorage, inflight, held, constructed,
          nstale, last>>

\* ---- bounds ----
MaxInFlight == 2
NumUsers == 2
NumTokens == 1
NumMessages == 1

\* ---- values ----
Null == <<>>
Some(x) == <<x>>

Users == 1..NumUsers
\* token strings: the empty string and NumTokens one-character strings
Tokens == {<<>>} \cup {<<c>> : c \in 1..NumTokens}
Messages == {<<c>> : c \in 1..NumMessages}

AuthStatus == {"checking", "authenticated", "notAuthenticated"}

\* LoginResponse / CheckTokenResponse: { user: User, token: string }
Responses == [user : Users, token : Tokens]

\* HttpErrorResponse as seen by catchError: err.error is null, or a payload
\* whose message field may be missing
ErrorResponses ==
  {[error |-> Null]} \cup
  {[error |-> Some([message |-> m])] : m \in {Null} \cup {Some(x) : x \in Messages}}

\* JavaScript truthiness of (string | null): null and "" are falsy
Falsy(t) == IF t = Null THEN TRUE ELSE Len(t[1]) = 0

\* outcomes delivered to the subscriber
NextVal(b) == [kind |-> "next", val |-> b]
ErrorVal(e) == [kind |-> "error", val |-> e]
Pending == [kind |-> "pending"]
Returned == [kind |-> "observable"]

\* the cold Observables checkAuthStatus returns: of(false), or the http.get
\* pipe with the Authorization header built from the token read at the call
OfFalse == [kind |-> "of", token |-> Null]
HttpGet(token) == [kind |-> "get", token |-> token]
Void == [kind |-> "void"]

\* the session as one record, so the methods are functions of it
Cur ==
  [currentUser |-> currentUser, authStatus |-> authStatus,
   localStorage |-> localStorage, inflight |-> inflight]

\* an issued HTTP request: the POST of login, or the GET of checkAuthStatus
\* with the bearer token it carries
Request(kind, token) == [kind |-> kind, token |-> token]

RemoveAt(q, i) == [j \in 1..(Len(q) - 1) |-> IF j < i THEN q[j] ELSE q[j + 1]]

\* ---- the methods ----

setAuthentication_noPersist(s, user, token) ==
  [state |-> [s EXCEPT !.currentUser = Some(user),
                       !.authStatus = "authenticated"],
   ret |-> TRUE]

setAuthentication_keepsUser(s, user, token) ==
  [state |-> [s EXCEPT !.currentUser = IF @ = Null THEN Some(user) ELSE @,
                       !.authStatus = "authenticated",
                       !.localStorage = Some(token)],
   ret |-> TRUE]

setAuthentication(s, user, token) ==
  [state |-> [s EXCEPT !.currentUser = Some(user),
                       !.authStatus = "authenticated",
                       !.localStorage = Some(token)],
   ret |-> TRUE]

logout_keepToken(s) ==
  [s EXCEPT !.currentUser = Null,
            !.authStatus = "notAuthenticated"]

logout_notifyServer(s) ==
  [s EXCEPT !.localStorage = Null,
            !.currentUser = Null,
            !.authStatus = "notAuthenticated",
            !.inflight = IF Len(@) < MaxInFlight /\ s.localStorage # Null
                         THEN Append(@, Request("check", s.localStorage))
                         ELSE @]

logout_cancels(s) ==
  [s EXCEPT !.localStorage = Null,
            !.currentUser = Null,
            !.authStatus = "notAuthenticated",
            !.inflight = <<>>]

logout_keepUser(s) ==
  [s EXCEPT !.localStorage = Null,
            !.authStatus = "notAuthenticated"]

logout(s) ==
  [s EXCEPT !.localStorage = Null,
            !.currentUser = Null,
            !.authStatus = "notAuthenticated"]

login_optimistic(s) ==
  [state |-> [s EXCEPT !.authStatus = IF s.currentUser # Null THEN "authenticated" ELSE @,
                       !.inflight = Append(@, Request("login", Null))],
   result |-> Pending]

\* login(email, password) with the subscribe that issues the POST
login(s) ==
  [state |-> [s EXCEPT !.inflight = Append(@, Request("login", Null))],
   result |-> Pending]

loginMap_firstWins(s, resp) ==
  IF s.authStatus = "authenticated"
  THEN [state |-> s, result |-> NextVal(TRUE)]
  ELSE LET r == setAuthentication(s, resp.user, resp.token)
       IN  [state |-> r.state, result |-> NextVal(r.ret)]

\* map(({ user, token }) => this.setAuthentication(user, token)) of login
loginMap(s, resp) ==
  LET r == setAuthentication(s, resp.user, resp.token)
  IN  [state |-> r.state, result |-> NextVal(r.ret)]

\* err.error.message
ErrorMessage(err) ==
  IF err.error = Null THEN [type |-> "TypeError"]
  ELSE IF err.error[1].message = Null THEN [type |-> "undefined"]
  ELSE [type |-> "string", str |-> err.error[1].message[1]]

loginCatchError_resetStatus(s, err) ==
  [state |-> [s EXCEPT !.authStatus = "notAuthenticated"],
   result |-> ErrorVal(ErrorMessage(err))]

\* catchError((err) => throwError(() => err.error.message)) of login
loginCatchError(s, err) ==
  [state |-> s, result |-> ErrorVal(ErrorMessage(err))]

checkAuthStatus_setsChecking(s) ==
  IF Falsy(s.localStorage)
  THEN [state |-> logout(s), obs |-> OfFalse]
  ELSE [state |-> [s EXCEPT !.authStatus = "checking"],
        obs |-> HttpGet(s.localStorage)]

checkAuthStatus_noLogout(s) ==
  IF Falsy(s.localStorage)
  THEN [state |-> s, obs |-> OfFalse]
  ELSE [state |-> s, obs |-> HttpGet(s.localStorage)]

\* checkAuthStatus(): the call itself, which returns a cold Observable
checkAuthStatus(s) ==
  IF Falsy(s.localStorage)
  THEN [state |-> logout(s), obs |-> OfFalse]
  ELSE [state |-> s, obs |-> HttpGet(s.localStorage)]

\* subscribing to the Observable checkAuthStatus returned: of(false) delivers
\* false, the http.get pipe issues the GET with the token read at the call
subscribe(s, obs) ==
  IF obs.kind = "of"
  THEN [state |-> s, result |-> NextVal(FALSE)]
  ELSE [state |-> [s EXCEPT !.inflight = Append(@, Request("check", obs.token))],
        result |-> Pending]

checkMap_sentToken(s, req, resp) ==
  LET r == setAuthentication(s, resp.user, req.token[1])
  IN  [state |-> r.state, result |-> NextVal(r.ret)]

\* map(({ user, token }) => this.setAuthentication(user, token)) of
\* checkAuthStatus; the token of the response shadows the one that was sent
checkMap(s, req, resp) ==
  LET r == setAuthentication(s, resp.user, resp.token)
  IN  [state |-> r.state, result |-> NextVal(r.ret)]

checkCatchError_logout(s) ==
  [state |-> logout(s), result |-> NextVal(FALSE)]

checkCatchError_rethrow(s) ==
  [state |-> [s EXCEPT !.authStatus = "notAuthenticated"],
   result |-> ErrorVal([type |-> "undefined"])]

checkCatchError_noStatus(s) ==
  [state |-> s, result |-> NextVal(FALSE)]

\* catchError(() => { _authStatus.set(notAuthenticated); return of(false) })
checkCatchError(s) ==
  [state |-> [s EXCEPT !.authStatus = "notAuthenticated"],
   result |-> NextVal(FALSE)]

\* ---- the state machine ----

\* nstale is bookkeeping for the properties: while the session is
\* authenticated, the number of requests in flight that were issued before it
\* became authenticated.  inflight is in issue order, so these are the oldest
\* ones.  i is the place of the request the step completes, 0 if none.
ApplyAt(s, i) ==
  /\ currentUser' = s.currentUser
  /\ authStatus' = s.authStatus
  /\ localStorage' = s.localStorage
  /\ inflight' = s.inflight
  /\ nstale' = IF s.authStatus # "authenticated" THEN 0
               ELSE IF authStatus # "authenticated" THEN Len(s.inflight)
               ELSE IF i # 0 /\ i <= nstale THEN nstale - 1
               ELSE nstale

Apply(s) == ApplyAt(s, 0)

\* the record of the step just taken, for the properties: the operation, authStatus and the number of requests
\* in flight before the step, the response handled (the error of a failed
\* login included), what the subscriber received, and
\*   sent       the bearer token of the request a successful check answers
\*   pos        the place in issue order of the login that succeeded
\*   afterLogin the pos of the step before when both are successful logins
\*   afterLogout whether the step before a logout or a success was a logout
\*   stale      whether the completed request was issued before the session
\*              became authenticated
\*   obs        the Observable a checkAuthStatus call returned or a subscribe
\*              step subscribed to
\*   origin     the response applied last, while a user is set
Event(op, resp, result) ==
  [op |-> op, was |-> authStatus, pending |-> Len(inflight),
   resp |-> resp, result |-> result,
   sent |-> Null, pos |-> 0, afterLogin |-> 0, stale |-> FALSE, obs |-> Null,
   afterLogout |-> (last.op = "logout"
                      /\ op \in {"logout", "loginSuccess", "checkSuccess"}),
   origin |-> IF currentUser' = Null THEN Null ELSE last.origin]

ObsEvent(op, obs, result) ==
  [Event(op, Null, result) EXCEPT !.obs = Some(obs)]

Completion(op, i, resp, result) ==
  [Event(op, IF op = "checkFailure" THEN Null ELSE Some(resp), result) EXCEPT
     !.sent = IF op = "checkSuccess" THEN inflight[i].token ELSE @,
     !.pos = IF op = "loginSuccess" THEN i ELSE @,
     !.afterLogin = IF op = "loginSuccess" /\ last.op = "loginSuccess"
                    THEN last.pos ELSE @,
     !.stale = (i <= nstale),
     !.origin = IF op \in {"loginSuccess", "checkSuccess"} THEN Some(resp) ELSE @]

\* field initialisers (lines 26-27); localStorage holds whatever an earlier
\* page load left in it
Init ==
  /\ currentUser = Null
  /\ authStatus = "checking"
  /\ localStorage \in {Null} \cup {Some(t) : t \in Tokens}
  /\ inflight = <<>>
  /\ held = {}
  /\ constructed = FALSE
  /\ nstale = 0
  /\ last = [op |-> "new", was |-> "checking", pending |-> 0,
             resp |-> Null, result |-> Void,
             sent |-> Null, pos |-> 0, afterLogin |-> 0, stale |-> FALSE,
             obs |-> Null, afterLogout |-> FALSE, origin |-> Null]

\* constructor: this.checkAuthStatus().subscribe(), one statement
Constructor ==
  /\ ~constructed
  /\ LET r == checkAuthStatus(Cur)
         q == subscribe(r.state, r.obs)
     IN  /\ Apply(q.state)
         /\ last' = ObsEvent("constructor", r.obs, q.result)
  /\ constructed' = TRUE
  /\ UNCHANGED held

\* login(email, password).subscribe(...)
Login ==
  /\ constructed
  /\ Len(inflight) < MaxInFlight
  /\ LET r == login(Cur)
     IN  /\ Apply(r.state)
         /\ last' = Event("login", Null, r.result)
  /\ UNCHANGED <<constructed, held>>

\* a caller calls checkAuthStatus() and keeps the Observable it returns
CheckAuthStatus ==
  /\ constructed
  /\ LET r == checkAuthStatus(Cur)
     IN  /\ Apply(r.state)
         /\ held' = held \cup {r.obs}
         /\ last' = ObsEvent("checkAuthStatus", r.obs, Returned)
  /\ UNCHANGED constructed

\* the caller subscribes to an Observable it holds, and then either keeps it
\* (a cold Observable can be subscribed again) or drops it
Subscribe ==
  \E o \in held, keep \in BOOLEAN :
    /\ o.kind = "get" => Len(inflight) < MaxInFlight
    /\ LET q == subscribe(Cur, o)
       IN  /\ Apply(q.state)
           /\ last' = ObsEvent("subscribe", o, q.result)
    /\ held' = IF keep THEN held ELSE held \ {o}
    /\ UNCHANGED constructed

Logout ==
  /\ constructed
  /\ Apply(logout(Cur))
  /\ last' = Event("logout", Null, Void)
  /\ UNCHANGED <<constructed, held>>

\* the POST of request i answers 2xx with resp
LoginSuccessAt(i) ==
  \E resp \in Responses :
    /\ i \in 1..Len(inflight)
    /\ inflight[i].kind = "login"
    /\ LET r == loginMap([Cur EXCEPT !.inflight = RemoveAt(@, i)], resp)
       IN  /\ ApplyAt(r.state, i)
           /\ last' = Completion("loginSuccess", i, resp, r.result)
    /\ UNCHANGED <<constructed, held>>

\* the POST of request i fails with err
LoginFailureAt(i) ==
  \E err \in ErrorResponses :
    /\ i \in 1..Len(inflight)
    /\ inflight[i].kind = "login"
    /\ LET r == loginCatchError([Cur EXCEPT !.inflight = RemoveAt(@, i)], err)
       IN  /\ ApplyAt(r.state, i)
           /\ last' = Completion("loginFailure", i, err, r.result)
    /\ UNCHANGED <<constructed, held>>

\* the GET of request i answers 2xx with resp
CheckSuccessAt(i) ==
  \E resp \in Responses :
    /\ i \in 1..Len(inflight)
    /\ inflight[i].kind = "check"
    /\ LET r == checkMap([Cur EXCEPT !.inflight = RemoveAt(@, i)], inflight[i], resp)
       IN  /\ ApplyAt(r.state, i)
           /\ last' = Completion("checkSuccess", i, resp, r.result)
    /\ UNCHANGED <<constructed, held>>

\* the GET of request i fails
CheckFailureAt(i) ==
  \E err \in ErrorResponses :
    /\ i \in 1..Len(inflight)
    /\ inflight[i].kind = "check"
    /\ LET r == checkCatchError([Cur EXCEPT !.inflight = RemoveAt(@, i)])
       IN  /\ ApplyAt(r.state, i)
           /\ last' = Completion("checkFailure", i, err, r.result)
    /\ UNCHANGED <<constructed, held>>

LoginSuccess == \E i \in 1..MaxInFlight : LoginSuccessAt(i)
LoginFailure == \E i \in 1..MaxInFlight : LoginFailureAt(i)
CheckSuccess == \E i \in 1..MaxInFlight : CheckSuccessAt(i)
CheckFailure == \E i \in 1..MaxInFlight : CheckFailureAt(i)

\* request i receives its response
Respond(i) ==
  LoginSuccessAt(i) \/ LoginFailureAt(i) \/ CheckSuccessAt(i) \/ CheckFailureAt(i)

Next ==
  \/ Constructor
  \/ Login
  \/ CheckAuthStatus
  \/ Subscribe
  \/ Logout
  \/ LoginSuccess
  \/ LoginFailure
  \/ CheckSuccess
  \/ CheckFailure

Spec == Init /\ [][Next]_vars

\* the constructor body runs to its end, and every issued request is answered:
\* the oldest request in flight stays the oldest until its response arrives
FairSpec == Spec /\ WF_vars(Constructor) /\ WF_vars(Respond(1))

TypeOK ==
  /\ currentUser \in {Null} \cup {Some(u) : u \in Users}
  /\ authStatus \in AuthStatus
  /\ localStorage \in {Null} \cup {Some(t) : t \in Tokens}
  /\ Len(inflight) <= MaxInFlight
  /\ held \subseteq {OfFalse} \cup {HttpGet(Some(t)) : t \in Tokens}
  /\ constructed \in BOOLEAN
  /\ nstale \in 0..Len(inflight)

\* ---- properties ----

IsTrue(r) == IF r.kind = "next" THEN r.val = TRUE ELSE FALSE
IsFalse(r) == IF r.kind = "next" THEN r.val = FALSE ELSE FALSE
Quiescent == constructed /\ inflight = <<>> /\ held = {}
CheckCalls == {"constructor", "checkAuthStatus"}
Subscribes == {"constructor", "subscribe"}

\* C1: whenever no operation is in progress, currentUser is non-null exactly
\* when authStatus is authenticated.  (Fails: a failed status check leaves
\* the user in place with status notAuthenticated.)
C1_UserIffAuthenticated ==
  Quiescent => ((currentUser # Null) <=> (authStatus = "authenticated"))

\* C2: a login that succeeds with (user, token) resolves to true and leaves
\* currentUser = user, authStatus = authenticated and the store holding token.
C2_LoginSuccessSetsSession ==
  last.op = "loginSuccess" =>
    /\ IsTrue(last.result)
    /\ currentUser = Some(last.resp[1].user)
    /\ authStatus = "authenticated"
    /\ localStorage = Some(last.resp[1].token)

C2_Witness ==
  /\ last.op = "loginSuccess"
  /\ last.was = "authenticated"
  /\ last.pending >= 2
  /\ IsTrue(last.result)
  /\ localStorage = Some(last.resp[1].token)

\* C3: right after logout the user is null, the status is notAuthenticated
\* and the store holds no token, whatever the state before.
C3_LogoutClearsSession ==
  last.op = "logout" =>
    /\ currentUser = Null
    /\ authStatus = "notAuthenticated"
    /\ localStorage = Null

C3_Witness ==
  /\ last.op = "logout"
  /\ last.was = "authenticated"
  /\ last.pending > 0

\* C4: a status check whose verification request fails resolves to false and
\* sets the status to notAuthenticated; currentUser and the stored token keep
\* the values they had just before the failure was handled.
C4_CheckFailureKeepsUserAndToken ==
  [][last'.op = "checkFailure" =>
       /\ IsFalse(last'.result)
       /\ authStatus' = "notAuthenticated"
       /\ currentUser' = currentUser
       /\ localStorage' = localStorage]_vars

C4_Witness ==
  /\ last.op = "checkFailure"
  /\ last.was = "authenticated"
  /\ currentUser # Null
  /\ localStorage # Null

\* C5: a login whose request fails gives the caller an error, carrying the
\* message of the server's error payload when the payload has one, and leaves
\* currentUser, authStatus and the stored token as they were.
C5_LoginFailureChangesNothing ==
  [][last'.op = "loginFailure" =>
       /\ last'.result.kind = "error"
       /\ LET e == last'.resp[1].error
          IN  IF e = Null THEN TRUE
              ELSE IF e[1].message = Null THEN TRUE
              ELSE last'.result.val = [type |-> "string", str |-> e[1].message[1]]
       /\ UNCHANGED <<currentUser, authStatus, localStorage>>]_vars

C5_Witness ==
  /\ last.op = "loginFailure"
  /\ last.resp[1].error # Null
  /\ last.resp[1].error[1].message # Null
  /\ last.was = "authenticated"
  /\ authStatus = "authenticated"

\* C6: checkAuthStatus called with no token in the store issues no request,
\* ends in the logged-out state and returns of(false); subscribing to that
\* Observable, whenever it happens, delivers false and issues no request.
C6_CheckWithoutToken ==
  [][/\ (last'.op \in CheckCalls /\ localStorage = Null) =>
          /\ last'.obs = Some(OfFalse)
          /\ inflight' = inflight
          /\ currentUser' = Null
          /\ authStatus' = "notAuthenticated"
          /\ localStorage' = Null
     /\ (last'.op \in Subscribes /\ last'.obs = Some(OfFalse)) =>
          /\ IsFalse(last'.result)
          /\ inflight' = inflight]_vars

C6_Witness ==
  /\ last.op = "subscribe"
  /\ last.obs = Some(OfFalse)
  /\ localStorage = Null
  /\ IsFalse(last.result)
  /\ authStatus = "notAuthenticated"

\* C7: a status check that completes always delivers a boolean, never an
\* error; a login whose request fails always delivers an error.
C7_CheckNeverErrors ==
  /\ (last.op \in {"checkSuccess", "checkFailure"}
        \/ (last.op \in Subscribes /\ last.result.kind # "pending"))
       => IsTrue(last.result) \/ IsFalse(last.result)
  /\ last.op = "loginFailure" => last.result.kind = "error"

C7_Witness ==
  /\ last.op = "checkFailure"
  /\ last.was = "checking"
  /\ IsFalse(last.result)

\* C8: a status check whose verification succeeds with (user, token) resolves
\* to true and leaves currentUser = user, authStatus = authenticated and the
\* store holding the token of the response, not the one that was sent.
C8_CheckSuccessSetsSession ==
  last.op = "checkSuccess" =>
    /\ IsTrue(last.result)
    /\ currentUser = Some(last.resp[1].user)
    /\ authStatus = "authenticated"
    /\ localStorage = Some(last.resp[1].token)

C8_Witness ==
  /\ last.op = "checkSuccess"
  /\ last.sent # Some(last.resp[1].token)
  /\ localStorage = Some(last.resp[1].token)

\* C9: once authStatus is not checking, no step sets it back to checking.
C9_NeverBackToChecking ==
  [][authStatus # "checking" => authStatus' # "checking"]_vars

C9_Witness ==
  /\ last.op = "subscribe"
  /\ last.result.kind = "pending"
  /\ last.was = "authenticated"
  /\ authStatus = "authenticated"

\* C10: logout issues no request, and a logout directly after a logout
\* leaves currentUser, authStatus and the store as the first one left them.
C10_LogoutIdempotent ==
  [][last'.op = "logout" =>
       /\ inflight' = inflight
       /\ (last.op = "logout" =>
             UNCHANGED <<currentUser, authStatus, localStorage>>)]_vars

C10_Witness ==
  /\ last.op = "logout"
  /\ last.afterLogout
  /\ last.pending > 0

Successes == {"loginSuccess", "checkSuccess"}
Calls == {"constructor", "login", "checkAuthStatus", "subscribe", "logout"}

\* C11: the store is written only by a successful login or status check, to
\* the token of that response, and deleted only by logout or by a
\* checkAuthStatus call that finds no token; nothing else changes it.
\* (Fails: a checkAuthStatus call that finds a stored empty string deletes it.)
C11_StoreChangesOnly ==
  [][localStorage' # localStorage =>
       \/ /\ last'.op \in Successes
          /\ localStorage' = Some(last'.resp[1].token)
       \/ /\ localStorage' = Null
          /\ \/ last'.op = "logout"
             \/ last'.op \in CheckCalls /\ localStorage = Null]_vars

\* C12: after construction authStatus eventually leaves checking: at once, to
\* notAuthenticated, when no token is persisted; otherwise the constructor
\* issues at most one verification request and the arrival of a verification
\* response leaves the status other than checking.
C12_LeavesChecking ==
  /\ <>(authStatus # "checking")
  /\ [][(~constructed /\ constructed') =>
          IF localStorage = Null
          THEN authStatus' = "notAuthenticated" /\ inflight' = <<>>
          ELSE Len(inflight') <= 1]_vars
  /\ [][last'.op \in {"checkSuccess", "checkFailure"} =>
          authStatus' # "checking"]_vars

C12_Witness ==
  /\ last.op \in {"checkSuccess", "checkFailure"}
  /\ last.was = "checking"
  /\ authStatus # "checking"

\* C13 (as stated): only a successful login moves authStatus from
\* notAuthenticated to authenticated.
C13_OnlyLoginAuthenticates ==
  [][(authStatus = "notAuthenticated" /\ authStatus' = "authenticated") =>
       last'.op = "loginSuccess"]_vars

\* C13 (amended): authStatus moves from notAuthenticated to authenticated only
\* when a login or a status check completes successfully.
C13_OnlySuccessAuthenticates ==
  [][(authStatus = "notAuthenticated" /\ authStatus' = "authenticated") =>
       last'.op \in Successes]_vars

C13_Witness ==
  /\ last.op = "checkSuccess"
  /\ last.was = "notAuthenticated"
  /\ authStatus = "authenticated"

\* C14: authStatus moves from authenticated to notAuthenticated only by logout
\* (called directly or by checkAuthStatus) or by the failure of a status check
\* issued after the session became authenticated; the failure of a check
\* issued before that does not.  (Fails: the failure of a stale check does.)
C14_OnlyLaterCheckDeauthenticates ==
  [][(authStatus = "authenticated" /\ authStatus' = "notAuthenticated") =>
       \/ last'.op = "logout"
       \/ last'.op \in CheckCalls /\ last'.obs = Some(OfFalse)
       \/ last'.op = "checkFailure" /\ ~last'.stale]_vars

\* C15: every login call issues its own request, and of two overlapping
\* logins that both succeed the one that resolves last determines currentUser
\* and the stored token, whichever was issued first.
C15_LastLoginResponseWins ==
  [][/\ last'.op = "login" => inflight' = Append(inflight, Request("login", Null))
     /\ (last.op = "loginSuccess" /\ last'.op = "loginSuccess") =>
          /\ currentUser' = Some(last'.resp[1].user)
          /\ localStorage' = Some(last'.resp[1].token)
          /\ authStatus' = "authenticated"]_vars

C15_Witness ==
  /\ last.op = "loginSuccess"
  /\ last.afterLogin = 2
  /\ last.pos = 1
  /\ currentUser = Some(last.resp[1].user)
  /\ localStorage = Some(last.resp[1].token)

\* C16: no call (login, checkAuthStatus, subscribe, logout) removes a request that is in
\* flight, and a success response handled right after a logout still sets
\* currentUser, authStatus = authenticated and the stored token.
C16_NoCancellation ==
  [][/\ last'.op \in Calls =>
          /\ Len(inflight') >= Len(inflight)
          /\ SubSeq(inflight', 1, Len(inflight)) = inflight
     /\ (last.op = "logout" /\ last'.op \in Successes) =>
          /\ currentUser' = Some(last'.resp[1].user)
          /\ authStatus' = "authenticated"
          /\ localStorage' = Some(last'.resp[1].token)]_vars

C16_Witness ==
  /\ last.op \in Successes
  /\ last.afterLogout
  /\ authStatus = "authenticated"
  /\ localStorage # Null

\* C17: a failed login always delivers an error that carries a message
\* string.  (Fails: the error is undefined when the payload has no message,
\* and a TypeError when there is no payload.)
C17_LoginErrorIsString ==
  last.op = "loginFailure" =>
    /\ last.result.kind = "error"
    /\ last.result.val.type = "string"

\* C18: checkAuthStatus logs out only when the store holds no token; when it
\* holds any value, the empty string included, it sends that value and leaves
\* the session alone.  (Fails: a stored empty string takes the logout path.)
C18_LogoutPathOnlyWithoutToken ==
  [][/\ last'.op \in CheckCalls =>
          IF localStorage = Null
          THEN last'.obs = Some(OfFalse) /\ inflight' = inflight
          ELSE /\ last'.obs = Some(HttpGet(localStorage))
               /\ UNCHANGED <<currentUser, authStatus, localStorage>>
     /\ (last'.op \in Subscribes /\ last'.obs # Some(OfFalse)) =>
          inflight' = Append(inflight, Request("check", last'.obs[1].token))]_vars

\* C19: in every state authenticated implies a non-null user and a stored
\* token, and a non-null user implies a stored token.
C19_AuthenticatedHasUserAndToken ==
  /\ authStatus = "authenticated" => currentUser # Null /\ localStorage # Null
  /\ currentUser # Null => localStorage # Null

C19_Witness ==
  /\ currentUser # Null
  /\ authStatus = "notAuthenticated"
  /\ localStorage # Null
  /\ Len(inflight) > 0

\* C20: whenever currentUser is non-null, it and the stored token are the
\* user and token of one and the same response, the latest one applied.
C20_UserAndTokenFromSameResponse ==
  currentUser # Null =>
    /\ last.origin # Null
    /\ currentUser = Some(last.origin[1].user)
    /\ localStorage = Some(last.origin[1].token)

C20_Witness ==
  /\ last.op = "checkSuccess"
  /\ last.was = "authenticated"
  /\ last.pending >= 2
  /\ currentUser = Some(last.resp[1].user)
  /\ localStorage = Some(last.resp[1].token)

====
